---- MODULE Spec2Model ----
(***************************************************************************)
(* Model of concrete.MutableDirectedGraph (src/concrete/mutdir.go): a      *)
(* mutable directed graph kept in three Go maps, nodeMap, successors and   *)
(* predecessors.  Go maps are modelled as functions whose DOMAIN is the    *)
(* key set; a graph.Node is modelled by its integer ID (concrete.Node is   *)
(* an int), a graph.Edge by [head, tail, id] where id is the caller's      *)
(* payload, and a WeightedEdge by [Edge, Cost].                            *)
(*                                                                         *)
(* Every method is one action.  last records the call just made (method,   *)
(* arguments, result, whether it panicked) and pre the graph it started    *)
(* from; Return is the caller taking the result before the next call.      *)
(* Where Go leaves the order of a range over a map open, the action takes  *)
(* every order.  allocated is the caller's record of the ids NewNode has   *)
(* returned since the last RemoveNode or EmptyGraph.                       *)
(***************************************************************************)
EXTENDS Integers, Sequences, FiniteSets, TLC

VARIABLES nodeMap, successors, predecessors, pre, last, allocated

vars == <<nodeMap, successors, predecessors, pre, last, allocated>>

\* ---- bounds of the model ----
MaxId == 2
MaxEdges == 2

\* math.Inf(1), a value above every finite cost of the model
Inf == 1000

NodeIds == 0..MaxId

\* ids a caller may also pass to AddNode and RemoveNode: ID() is any int
SignedIds == -1..MaxId

\* the costs a caller passes to AddEdgeTo: any float64, +Inf included
Costs == {5, Inf}

\* the edges a caller inserts
Edges == [head : NodeIds, tail : NodeIds, id : {"a"}]

\* the edges a caller builds to look up or remove a pair: another object
\* with the same endpoints
Probes == [head : NodeIds, tail : NodeIds, id : {"b"}]

\* ---- Go map and slice primitives ----
EmptyMap == [x \in {} |-> x]

MapPut(m, k, v) == [x \in (DOMAIN m) \cup {k} |-> IF x = k THEN v ELSE m[x]]

MapDelete(m, k) == [x \in (DOMAIN m) \ {k} |-> m[x]]

\* m[k] of a map of maps: a missing key reads as the nil (empty) map
MapGet(m, k) == IF k \in DOMAIN m THEN m[k] ELSE EmptyMap

\* delete(m[a], b): deleting from a nil map is a no-op
MapDelete2(m, a, b) ==
    IF a \in DOMAIN m THEN [m EXCEPT ![a] = MapDelete(m[a], b)] ELSE m

\* a nil interface value, and a non-nil one, as slice elements or results
Nil == <<>>

Some(v) == <<v>>

\* every order in which range may visit the keys of a map
RECURSIVE Perms(_)
Perms(S) ==
    IF S = {} THEN {<<>>}
    ELSE UNION {{<<x>> \o p : p \in Perms(S \ {x})} : x \in S}

WeightedEdge(e, cost) == [Edge |-> e, Cost |-> cost]

Graph(nm, succ, pred) == [nodeMap |-> nm, successors |-> succ, predecessors |-> pred]

\* the graph held by the variables
g == Graph(nodeMap, successors, predecessors)

NewMutableDirectedGraph == Graph(EmptyMap, EmptyMap, EmptyMap)

\* ---- mutators, as functions from graph to graph ----
\* AddNode without the early return for an id already present
AddNodeAlwaysResets(G, n) ==
    Graph(MapPut(G.nodeMap, n, n),
          MapPut(G.successors, n, EmptyMap),
          MapPut(G.predecessors, n, EmptyMap))

AddNode(G, n) ==
    IF n \in DOMAIN G.nodeMap
    THEN G
    ELSE Graph(MapPut(G.nodeMap, n, n),
               MapPut(G.successors, n, EmptyMap),
               MapPut(G.predecessors, n, EmptyMap))

\* g.successors[a][b] = v; assignment to an entry of a nil map panics, which
\* the caller reports as a fault
MapPut2(m, a, b, v) ==
    IF a \in DOMAIN m THEN [m EXCEPT ![a] = MapPut(m[a], b, v)] ELSE m

\* AddEdgeTo writing the reverse index under [head][tail] too
AddEdgeToSwapped(G, e, cost) ==
    LET G2 == AddNode(AddNode(G, e.head), e.tail)
    IN Graph(G2.nodeMap,
             MapPut2(G2.successors, e.head, e.tail, WeightedEdge(e, cost)),
             MapPut2(G2.predecessors, e.head, e.tail, WeightedEdge(e, cost)))

AddEdgeTo(G, e, cost) ==
    LET head == e.head
        tail == e.tail
        G1 == AddNode(G, head)
        G2 == AddNode(G1, tail)
        succ == MapPut2(G2.successors, head, tail, WeightedEdge(e, cost))
        pred == MapPut2(G2.predecessors, tail, head, WeightedEdge(e, cost))
    IN Graph(G2.nodeMap, succ, pred)

\* the nil-map write AddEdgeTo would panic on
AddEdgeToFault(G, e) ==
    LET G2 == AddNode(AddNode(G, e.head), e.tail)
    IN \/ e.head \notin DOMAIN G2.successors
       \/ e.tail \notin DOMAIN G2.predecessors

\* RemoveNode without its last statement, delete(g.predecessors, n.ID())
RemoveNodeKeepsPredEntry(G, n) ==
    IF n \notin DOMAIN G.nodeMap
    THEN G
    ELSE LET succs == DOMAIN MapGet(G.successors, n)
             pred1 == [k \in DOMAIN G.predecessors |->
                          IF k \in succs THEN MapDelete(G.predecessors[k], n)
                                         ELSE G.predecessors[k]]
             succ1 == MapDelete(G.successors, n)
             preds == DOMAIN MapGet(pred1, n)
             succ2 == [k \in DOMAIN succ1 |->
                          IF k \in preds THEN MapDelete(succ1[k], n)
                                         ELSE succ1[k]]
         IN Graph(MapDelete(G.nodeMap, n), succ2, pred1)

\* RemoveNode without the loop over the successors of n
RemoveNodeNoSuccLoop(G, n) ==
    IF n \notin DOMAIN G.nodeMap
    THEN G
    ELSE LET succ1 == MapDelete(G.successors, n)
             preds == DOMAIN MapGet(G.predecessors, n)
             succ2 == [k \in DOMAIN succ1 |->
                          IF k \in preds THEN MapDelete(succ1[k], n)
                                         ELSE succ1[k]]
         IN Graph(MapDelete(G.nodeMap, n), succ2, MapDelete(G.predecessors, n))

\* RemoveNode without the loop over the predecessors of n
RemoveNodeNoPredLoop(G, n) ==
    IF n \notin DOMAIN G.nodeMap
    THEN G
    ELSE LET succs == DOMAIN MapGet(G.successors, n)
             pred1 == [k \in DOMAIN G.predecessors |->
                          IF k \in succs THEN MapDelete(G.predecessors[k], n)
                                         ELSE G.predecessors[k]]
         IN Graph(MapDelete(G.nodeMap, n), MapDelete(G.successors, n),
                  MapDelete(pred1, n))

RemoveNode(G, n) ==
    IF n \notin DOMAIN G.nodeMap
    THEN G
    ELSE LET nm == MapDelete(G.nodeMap, n)
             succs == DOMAIN MapGet(G.successors, n)
             pred1 == [k \in DOMAIN G.predecessors |->
                          IF k \in succs THEN MapDelete(G.predecessors[k], n)
                                         ELSE G.predecessors[k]]
             succ1 == MapDelete(G.successors, n)
             preds == DOMAIN MapGet(pred1, n)
             succ2 == [k \in DOMAIN succ1 |->
                          IF k \in preds THEN MapDelete(succ1[k], n)
                                         ELSE succ1[k]]
             pred2 == MapDelete(pred1, n)
         IN Graph(nm, succ2, pred2)

\* RemoveEdgeTo deleting the entry only when it holds the very edge e
RemoveEdgeToMatchesPayload(G, e) ==
    LET head == e.head
        tail == e.tail
    IN IF head \notin DOMAIN G.nodeMap THEN G
       ELSE IF tail \notin DOMAIN G.nodeMap THEN G
       ELSE IF /\ head \in DOMAIN G.successors
               /\ tail \in DOMAIN G.successors[head]
               /\ G.successors[head][tail].Edge = e
            THEN Graph(G.nodeMap,
                       MapDelete2(G.successors, head, tail),
                       MapDelete2(G.predecessors, tail, head))
            ELSE G

\* RemoveEdgeTo deleting the edge between head and tail in both directions
RemoveEdgeToUndirected(G, e) ==
    LET head == e.head
        tail == e.tail
    IN IF head \notin DOMAIN G.nodeMap THEN G
       ELSE IF tail \notin DOMAIN G.nodeMap THEN G
       ELSE Graph(G.nodeMap,
                  MapDelete2(MapDelete2(G.successors, head, tail), tail, head),
                  MapDelete2(MapDelete2(G.predecessors, tail, head), head, tail))

RemoveEdgeTo(G, e) ==
    LET head == e.head
        tail == e.tail
    IN IF head \notin DOMAIN G.nodeMap THEN G
       ELSE IF tail \notin DOMAIN G.nodeMap THEN G
       ELSE Graph(G.nodeMap,
                  MapDelete2(G.successors, head, tail),
                  MapDelete2(G.predecessors, tail, head))

EmptyGraph(G) == Graph(EmptyMap, EmptyMap, EmptyMap)

\* ---- NodeList and NewNode ----
\* NodeList with range visiting nodeMap in the order ord: a slice of
\* len(successors) slots, filled from the front, the rest left nil
NodeList(G, ord) ==
    [i \in 1..Cardinality(DOMAIN G.successors) |->
        IF i <= Len(ord) THEN Some(G.nodeMap[ord[i]]) ELSE Nil]

\* writing past the end of the slice panics
NodeListFault(G) == Cardinality(DOMAIN G.nodeMap) > Cardinality(DOMAIN G.successors)

RECURSIVE Insert(_, _)
Insert(s, x) ==
    IF s = <<>> THEN <<x>>
    ELSE IF x <= Head(s) THEN <<x>> \o s
    ELSE <<Head(s)>> \o Insert(Tail(s), x)

\* sort.Sort on a sort.IntSlice: ascending order
RECURSIVE SortInts(_)
SortInts(s) == IF s = <<>> THEN <<>> ELSE Insert(SortInts(Tail(s)), Head(s))

\* NewNode without the scan for a gap: always the next id after the live ones
FirstGapNoRecycle(nodes, i) == Len(nodes)

\* first 0-based position i of the sorted ids with i # nodes[i], or len(nodes)
RECURSIVE FirstGap(_, _)
FirstGap(nodes, i) ==
    IF i >= Len(nodes) THEN Len(nodes)
    ELSE IF i # nodes[i + 1] THEN i
    ELSE FirstGap(nodes, i + 1)

\* NewNode without its calls of AddNode
NewNodeOnlyComputes(G, nodeList) ==
    IF \E i \in DOMAIN nodeList : nodeList[i] = Nil
    THEN [G |-> G, ret |-> Nil, fault |-> TRUE]
    ELSE [G |-> G,
          ret |-> Some(FirstGap(SortInts([i \in DOMAIN nodeList |-> nodeList[i][1]]), 0)),
          fault |-> FALSE]

\* NewNode without the AddNode of line 52
NewNodeNoInsertOnGap(G, nodeList) ==
    IF \E i \in DOMAIN nodeList : nodeList[i] = Nil
    THEN [G |-> G, ret |-> Nil, fault |-> TRUE]
    ELSE LET ids == [i \in DOMAIN nodeList |-> nodeList[i][1]]
             nodes == SortInts(ids)
             newID == FirstGap(nodes, 0)
         IN [G |-> IF newID < Len(nodes) THEN G ELSE AddNode(G, newID),
             ret |-> Some(newID), fault |-> FALSE]

\* NewNode, nodeList being what NodeList returned: the id returned and the
\* graph left behind
NewNode(G, nodeList) ==
    IF \E i \in DOMAIN nodeList : nodeList[i] = Nil
    THEN [G |-> G, ret |-> Nil, fault |-> TRUE]
    ELSE LET ids == [i \in DOMAIN nodeList |-> nodeList[i][1]]
             nodes == SortInts(ids)
             newID == FirstGap(nodes, 0)
         IN [G |-> AddNode(G, newID), ret |-> Some(newID), fault |-> FALSE]

\* ---- queries ----
\* an index expression that creates the entry it does not find
IndexReadCreates(m, k) == IF k \in DOMAIN m THEN m ELSE MapPut(m, k, EmptyMap)

\* the map m after the index expression m[k] was evaluated: for a missing
\* key Go yields the zero value and leaves m as it is
IndexRead(m, k) == m

RECURSIVE IndexReads(_, _)
IndexReads(m, K) ==
    IF K = {} THEN m
    ELSE LET k == CHOOSE x \in K : TRUE
         IN IndexReads(IndexRead(m, k), K \ {k})

\* the graph after a query has indexed g.successors at the ids of S and
\* g.predecessors at the ids of P
AfterReads(G, S, P) ==
    Graph(G.nodeMap, IndexReads(G.successors, S), IndexReads(G.predecessors, P))

\* g.nodeMap[k] as a slice element: nil when k is not a key
NodeAt(G, k) == IF k \in DOMAIN G.nodeMap THEN Some(G.nodeMap[k]) ELSE Nil

\* Successors filling its slice from the second slot on
SuccessorsSkipsSlot(G, n, ord) ==
    IF n \notin DOMAIN G.successors THEN Nil
    ELSE [i \in 1..Cardinality(DOMAIN G.successors[n]) |->
              IF i = 1 THEN Nil ELSE NodeAt(G, ord[i - 1])]

\* Successors(n), range visiting successors[n] in the order ord
Successors(G, n, ord) ==
    IF n \notin DOMAIN G.successors THEN Nil
    ELSE [i \in 1..Cardinality(DOMAIN G.successors[n]) |-> NodeAt(G, ord[i])]

\* Predecessors(n), range visiting predecessors[n] in the order ord
Predecessors(G, n, ord) ==
    IF n \notin DOMAIN G.successors THEN Nil
    ELSE [i \in 1..Cardinality(DOMAIN MapGet(G.predecessors, n)) |-> NodeAt(G, ord[i])]

NodeExists(G, n) == n \in DOMAIN G.nodeMap

\* Degree counting the outgoing edges only
DegreeOutOnly(G, n) ==
    IF n \notin DOMAIN G.nodeMap THEN 0
    ELSE Cardinality(DOMAIN MapGet(G.successors, n))

Degree(G, n) ==
    IF n \notin DOMAIN G.nodeMap THEN 0
    ELSE Cardinality(DOMAIN MapGet(G.successors, n))
         + Cardinality(DOMAIN MapGet(G.predecessors, n))

\* Cost looking the pair up as (tail, head)
CostReversed(G, e) ==
    IF e.tail \in DOMAIN G.successors
    THEN LET s == G.successors[e.tail]
         IN IF e.head \in DOMAIN s THEN s[e.head].Cost ELSE Inf
    ELSE Inf

Cost(G, e) ==
    IF e.head \in DOMAIN G.successors
    THEN LET s == G.successors[e.head]
         IN IF e.tail \in DOMAIN s THEN s[e.tail].Cost ELSE Inf
    ELSE Inf

EdgeTo(G, n, succ) ==
    IF n \notin DOMAIN G.nodeMap THEN Nil
    ELSE IF succ \notin DOMAIN G.nodeMap THEN Nil
    ELSE LET s == MapGet(G.successors, n)
         IN IF succ \in DOMAIN s THEN Some(s[succ]) ELSE Nil

\* Neighbors(n), range visiting successors[n] in the order succOrd and
\* predecessors[n] in the order predOrd
Neighbors(G, n, succOrd, predOrd) ==
    IF n \notin DOMAIN G.successors THEN Nil
    ELSE LET succs == G.successors[n]
             preds == MapGet(G.predecessors, n)
             size == Cardinality(DOMAIN preds) + Cardinality(DOMAIN succs)
             NotSucc(k) == k \notin DOMAIN succs
             filled == succOrd \o SelectSeq(predOrd, NotSucc)
         IN [i \in 1..size |->
                IF i <= Len(filled) THEN NodeAt(G, filled[i]) ELSE Nil]

\* EdgeBetween looking in the forward direction only
EdgeBetweenForwardOnly(G, n, neigh) == EdgeTo(G, n, neigh)

EdgeBetween(G, n, neigh) ==
    LET e == EdgeTo(G, n, neigh)
    IN IF e # Nil THEN e
       ELSE LET e2 == EdgeTo(G, neigh, n)
            IN IF e2 # Nil THEN e2 ELSE Nil

\* the orders in which range may visit each inner map of m
RECURSIVE InnerOrders(_, _)
InnerOrders(m, D) ==
    IF D = {} THEN {EmptyMap}
    ELSE LET n == CHOOSE x \in D : TRUE
         IN {MapPut(f, n, p) : f \in InnerOrders(m, D \ {n}),
                               p \in Perms(DOMAIN m[n])}

\* the scan EdgeList makes: entering node n, then its entries one by one
RECURSIVE ScanSteps(_, _)
ScanSteps(nodeOrd, succOrd) ==
    IF nodeOrd = <<>> THEN <<>>
    ELSE LET n == Head(nodeOrd)
         IN <<[n |-> n, entry |-> FALSE, succ |-> n]>>
            \o [i \in 1..Len(succOrd[n]) |->
                    [n |-> n, entry |-> TRUE, succ |-> succOrd[n][i]]]
            \o ScanSteps(Tail(nodeOrd), succOrd)

\* the loop body of EdgeList looking for succ in the done set of n itself
EdgeListStepOwnDoneSet(G, st, step) ==
    IF ~step.entry
    THEN [st EXCEPT !.edgeMap = MapPut(st.edgeMap, step.n, {})]
    ELSE IF /\ step.n \in DOMAIN st.edgeMap
            /\ step.succ \in st.edgeMap[step.n]
         THEN st
         ELSE [edgeList |-> Append(st.edgeList, G.successors[step.n][step.succ]),
               edgeMap |-> [st.edgeMap EXCEPT ![step.n] = @ \cup {step.succ}]]

\* the loop body of EdgeList making the done set of every node when it
\* enters a node
EdgeListStepAllDoneSets(G, st, step) ==
    IF ~step.entry
    THEN [st EXCEPT !.edgeMap =
              [n \in DOMAIN G.successors |->
                  IF n \in DOMAIN st.edgeMap /\ n # step.n
                  THEN st.edgeMap[n] ELSE {}]]
    ELSE IF /\ step.succ \in DOMAIN st.edgeMap
            /\ step.n \in st.edgeMap[step.succ]
         THEN st
         ELSE [edgeList |-> Append(st.edgeList, G.successors[step.n][step.succ]),
               edgeMap |-> [st.edgeMap EXCEPT ![step.n] = @ \cup {step.succ}]]

\* the loop body of EdgeList emitting the edge of the opposite direction
\* when there is one
EdgeListStepEmitsReverse(G, st, step) ==
    IF ~step.entry
    THEN [st EXCEPT !.edgeMap = MapPut(st.edgeMap, step.n, {})]
    ELSE IF /\ step.succ \in DOMAIN st.edgeMap
            /\ step.n \in st.edgeMap[step.succ]
         THEN st
         ELSE [edgeList |->
                   Append(st.edgeList,
                          IF step.n \in DOMAIN G.successors[step.succ]
                          THEN G.successors[step.succ][step.n]
                          ELSE G.successors[step.n][step.succ]),
               edgeMap |-> [st.edgeMap EXCEPT ![step.n] = @ \cup {step.succ}]]

\* one step of the loops of EdgeList on (edgeList, edgeMap)
EdgeListStep(G, st, step) ==
    IF ~step.entry
    THEN [st EXCEPT !.edgeMap = MapPut(st.edgeMap, step.n, {})]
    ELSE IF /\ step.succ \in DOMAIN st.edgeMap
            /\ step.n \in st.edgeMap[step.succ]
         THEN st
         ELSE [edgeList |-> Append(st.edgeList, G.successors[step.n][step.succ]),
               edgeMap |-> [st.edgeMap EXCEPT ![step.n] = @ \cup {step.succ}]]

RECURSIVE EdgeListScan(_, _, _)
EdgeListScan(G, st, steps) ==
    IF steps = <<>> THEN st
    ELSE EdgeListScan(G, EdgeListStep(G, st, Head(steps)), Tail(steps))

\* (edgeList, edgeMap) before each step of the scan, and after the last one
RECURSIVE EdgeListStates(_, _, _)
EdgeListStates(G, st, steps) ==
    IF steps = <<>> THEN <<st>>
    ELSE <<st>> \o EdgeListStates(G, EdgeListStep(G, st, Head(steps)), Tail(steps))

\* EdgeList with range visiting successors in the order nodeOrd and each
\* successors[n] in the order succOrd[n]
EdgeList(G, nodeOrd, succOrd) ==
    EdgeListScan(G, [edgeList |-> <<>>, edgeMap |-> EmptyMap],
                 ScanSteps(nodeOrd, succOrd)).edgeList

\* ---- the state machine ----
RECURSIVE Sum(_, _)
Sum(f, S) ==
    IF S = {} THEN 0
    ELSE LET x == CHOOSE y \in S : TRUE IN f[x] + Sum(f, S \ {x})

\* number of stored directed edges
NumEdges(G) ==
    Sum([h \in DOMAIN G.successors |-> Cardinality(DOMAIN G.successors[h])],
        DOMAIN G.successors)

Call(op, args, ret, fault) == [op |-> op, args |-> args, ret |-> ret, fault |-> fault]

Init ==
    /\ nodeMap = EmptyMap
    /\ successors = EmptyMap
    /\ predecessors = EmptyMap
    /\ pre = NewMutableDirectedGraph
    /\ last = Call("NewMutableDirectedGraph", <<>>, Nil, FALSE)
    /\ allocated = {}

\* the caller is between two calls
Idle == last.op = "idle"

\* a call leaves graph G; pre keeps the graph the call started from
Install(G) ==
    /\ nodeMap' = G.nodeMap
    /\ successors' = G.successors
    /\ predecessors' = G.predecessors
    /\ pre' = g
    /\ UNCHANGED allocated

\* the caller takes the result of the call and is ready for the next one
Return ==
    /\ ~Idle
    /\ last' = Call("idle", <<>>, Nil, FALSE)
    /\ pre' = g
    /\ UNCHANGED <<nodeMap, successors, predecessors, allocated>>

\* the ids NewNode has returned since the last RemoveNode or EmptyGraph, once
\* the call in c is over
Recorded(ids, c) ==
    IF c.op \in {"RemoveNode", "EmptyGraph"} THEN {}
    ELSE IF c.op = "NewNode" /\ c.ret # Nil THEN ids \cup {c.ret[1]}
    ELSE ids

\* Return, with the caller keeping the ids NewNode gave it
ReturnRecording ==
    /\ ~Idle
    /\ last' = Call("idle", <<>>, Nil, FALSE)
    /\ pre' = g
    /\ allocated' = Recorded(allocated, last)
    /\ UNCHANGED <<nodeMap, successors, predecessors>>

DoAddNode ==
    /\ Idle
    /\ \E n \in NodeIds :
          /\ Install(AddNode(g, n))
          /\ last' = Call("AddNode", <<n>>, Nil, FALSE)

DoAddEdgeTo ==
    /\ Idle
    /\ \E e \in Edges, cost \in Costs :
          LET G2 == AddEdgeTo(g, e, cost)
              fault == AddEdgeToFault(g, e)
          IN /\ NumEdges(G2) <= MaxEdges
             /\ Install(IF fault THEN g ELSE G2)
             /\ last' = Call("AddEdgeTo", <<e, cost>>, Nil, fault)

\* AddEdgeTo with the one finite cost
DoAddEdgeToFinite ==
    /\ Idle
    /\ \E e \in Edges :
          LET G2 == AddEdgeTo(g, e, 5)
              fault == AddEdgeToFault(g, e)
          IN /\ NumEdges(G2) <= MaxEdges
             /\ Install(IF fault THEN g ELSE G2)
             /\ last' = Call("AddEdgeTo", <<e, 5>>, Nil, fault)

DoRemoveNode ==
    /\ Idle
    /\ \E n \in NodeIds :
          /\ Install(RemoveNode(g, n))
          /\ last' = Call("RemoveNode", <<n>>, Nil, FALSE)

DoRemoveEdgeTo ==
    /\ Idle
    /\ \E e \in Probes :
          /\ Install(RemoveEdgeTo(g, e))
          /\ last' = Call("RemoveEdgeTo", <<e>>, Nil, FALSE)

DoEmptyGraph ==
    /\ Idle
    /\ Install(EmptyGraph(g))
    /\ last' = Call("EmptyGraph", <<>>, Nil, FALSE)

DoNewNode ==
    /\ Idle
    /\ \E ord \in Perms(DOMAIN nodeMap) :
          LET r == NewNode(g, NodeList(g, ord))
          IN /\ DOMAIN r.G.nodeMap \subseteq SignedIds
             /\ Install(r.G)
             /\ last' = Call("NewNode", <<>>, r.ret, r.fault \/ NodeListFault(g))

\* AddNode and RemoveNode with ids of either sign
DoAddNodeSigned ==
    /\ Idle
    /\ \E n \in SignedIds :
          /\ Install(AddNode(g, n))
          /\ last' = Call("AddNode", <<n>>, Nil, FALSE)

DoRemoveNodeSigned ==
    /\ Idle
    /\ \E n \in SignedIds :
          /\ Install(RemoveNode(g, n))
          /\ last' = Call("RemoveNode", <<n>>, Nil, FALSE)

DoSuccessors ==
    /\ Idle
    /\ \E n \in NodeIds :
          \E ord \in Perms(DOMAIN MapGet(successors, n)) :
              /\ Install(AfterReads(g, {n}, {}))
              /\ last' = Call("Successors", <<n, ord>>, Successors(g, n, ord), FALSE)

DoPredecessors ==
    /\ Idle
    /\ \E n \in NodeIds :
          \E ord \in Perms(DOMAIN MapGet(predecessors, n)) :
              /\ Install(AfterReads(g, {n}, {n}))
              /\ last' = Call("Predecessors", <<n, ord>>, Predecessors(g, n, ord), FALSE)

DoNodeExists ==
    /\ Idle
    /\ \E n \in NodeIds :
          /\ Install(g)
          /\ last' = Call("NodeExists", <<n>>, NodeExists(g, n), FALSE)

DoDegree ==
    /\ Idle
    /\ \E n \in NodeIds :
          /\ Install(IF n \in DOMAIN nodeMap THEN AfterReads(g, {n}, {n}) ELSE g)
          /\ last' = Call("Degree", <<n>>, Degree(g, n), FALSE)

DoNodeList ==
    /\ Idle
    /\ \E ord \in Perms(DOMAIN nodeMap) :
          /\ Install(g)
          /\ last' = Call("NodeList", <<ord>>, NodeList(g, ord), NodeListFault(g))

DoCost ==
    /\ Idle
    /\ \E e \in Probes :
          /\ Install(AfterReads(g, {e.head}, {}))
          /\ last' = Call("Cost", <<e>>, Cost(g, e), FALSE)

DoEdgeTo ==
    /\ Idle
    /\ \E n, succ \in NodeIds :
          /\ Install(IF {n, succ} \subseteq DOMAIN nodeMap
                     THEN AfterReads(g, {n}, {}) ELSE g)
          /\ last' = Call("EdgeTo", <<n, succ>>, EdgeTo(g, n, succ), FALSE)

DoEdgeBetween ==
    /\ Idle
    /\ \E n, neigh \in NodeIds :
          /\ Install(IF {n, neigh} \subseteq DOMAIN nodeMap
                     THEN AfterReads(g, {n, neigh}, {}) ELSE g)
          /\ last' = Call("EdgeBetween", <<n, neigh>>, EdgeBetween(g, n, neigh), FALSE)

DoNeighbors ==
    /\ Idle
    /\ \E n \in NodeIds :
          \E succOrd \in Perms(DOMAIN MapGet(successors, n)),
             predOrd \in Perms(DOMAIN MapGet(predecessors, n)) :
              /\ Install(AfterReads(g, {n}, {n}))
              /\ last' = Call("Neighbors", <<n, succOrd, predOrd>>,
                              Neighbors(g, n, succOrd, predOrd), FALSE)

DoEdgeList ==
    /\ Idle
    /\ \E nodeOrd \in Perms(DOMAIN successors) :
          \E succOrd \in InnerOrders(successors, DOMAIN successors) :
              /\ Install(g)
              /\ last' = Call("EdgeList", <<nodeOrd, succOrd>>,
                              EdgeList(g, nodeOrd, succOrd), FALSE)

Next ==
    \/ DoAddNode
    \/ DoAddEdgeTo
    \/ DoRemoveNode
    \/ DoRemoveEdgeTo
    \/ DoEmptyGraph
    \/ DoNewNode
    \/ Return

Spec == Init /\ [][Next]_vars

\* node ids of either sign, no edges: the states NewNode allocates from
NextIds ==
    \/ DoAddNodeSigned
    \/ DoRemoveNodeSigned
    \/ DoEmptyGraph
    \/ DoNewNode
    \/ Return

SpecIds == Init /\ [][NextIds]_vars

\* ids of either sign and edges, the caller keeping what NewNode returns
NextAlloc ==
    \/ DoAddNodeSigned
    \/ DoAddEdgeToFinite
    \/ DoRemoveNodeSigned
    \/ DoRemoveEdgeTo
    \/ DoEmptyGraph
    \/ DoNewNode
    \/ ReturnRecording

SpecAlloc == Init /\ [][NextAlloc]_vars

NextCost == Next \/ DoCost

SpecCost == Init /\ [][NextCost]_vars

NextEdgeTo == Next \/ DoEdgeTo \/ DoEdgeBetween

SpecEdgeTo == Init /\ [][NextEdgeTo]_vars

NextNeighbors == Next \/ DoNeighbors

SpecNeighbors == Init /\ [][NextNeighbors]_vars

NextEdgeList == Next \/ DoEdgeList

SpecEdgeList == Init /\ [][NextEdgeList]_vars

\* the mutators and every query
NextQueries ==
    \/ Next
    \/ DoSuccessors
    \/ DoPredecessors
    \/ DoNeighbors
    \/ DoEdgeTo
    \/ DoEdgeBetween
    \/ DoNodeExists
    \/ DoDegree
    \/ DoNodeList
    \/ DoCost
    \/ DoEdgeList

SpecQueries == Init /\ [][NextQueries]_vars

\* ---- properties ----
\* every id a key of the model can be
Ids == SignedIds

\* m[a][b] is an entry of the map of maps m
HasEdge(m, a, b) == a \in DOMAIN m /\ b \in DOMAIN m[a]

\* the arguments of the last call
Arg(i) == last.args[i]

\* C1: dual-index symmetry. In every reachable state, for all ids h and t,
\* successors[h] has key t with weighted edge w if and only if
\* predecessors[t] has key h with the same w (same payload, same cost).
DualIndexSymmetry ==
    \A h, t \in Ids :
        /\ HasEdge(successors, h, t) <=> HasEdge(predecessors, t, h)
        /\ HasEdge(successors, h, t) => successors[h][t] = predecessors[t][h]

\* one edge of a reciprocal pair was removed and the other is still stored
DualIndexWitness ==
    /\ last.op = "RemoveEdgeTo"
    /\ Arg(1).head # Arg(1).tail
    /\ HasEdge(pre.successors, Arg(1).head, Arg(1).tail)
    /\ ~HasEdge(successors, Arg(1).head, Arg(1).tail)
    /\ HasEdge(successors, Arg(1).tail, Arg(1).head)
    /\ HasEdge(predecessors, Arg(1).head, Arg(1).tail)

\* C2: key-set equality. After every operation the key sets of nodeMap,
\* successors and predecessors are the same set.
KeySetEquality ==
    /\ DOMAIN nodeMap = DOMAIN successors
    /\ DOMAIN nodeMap = DOMAIN predecessors

\* a live node with edges was removed while other nodes stay
KeySetWitness ==
    /\ last.op = "RemoveNode"
    /\ Arg(1) \in DOMAIN pre.nodeMap
    /\ pre.successors[Arg(1)] # EmptyMap
    /\ pre.predecessors[Arg(1)] # EmptyMap
    /\ Arg(1) \notin DOMAIN nodeMap
    /\ DOMAIN nodeMap # {}

\* C3: no dangling edges. Every inner key of successors[h] and of
\* predecessors[t] is a key of nodeMap.
NoDanglingEdges ==
    \A h \in Ids :
        /\ h \in DOMAIN successors => DOMAIN successors[h] \subseteq DOMAIN nodeMap
        /\ h \in DOMAIN predecessors => DOMAIN predecessors[h] \subseteq DOMAIN nodeMap

\* AddEdgeTo inserted an edge between two nodes that were both missing
NoDanglingWitness ==
    /\ last.op = "AddEdgeTo"
    /\ Arg(1).head # Arg(1).tail
    /\ Arg(1).head \notin DOMAIN pre.nodeMap
    /\ Arg(1).tail \notin DOMAIN pre.nodeMap
    /\ NumEdges(pre) >= 1
    /\ HasEdge(successors, Arg(1).head, Arg(1).tail)
    /\ {Arg(1).head, Arg(1).tail} \subseteq DOMAIN nodeMap
\* the smallest non-negative integer that is not a key of m
SmallestFree(m) ==
    CHOOSE i \in 0..Cardinality(DOMAIN m) :
        /\ i \notin DOMAIN m
        /\ \A j \in 0..(i - 1) : j \in DOMAIN m

NonNegative(m) == \A k \in DOMAIN m : k >= 0

\* C4: smallest-free-id allocation. When every live id is non-negative,
\* NewNode returns the smallest non-negative integer that is not a key of
\* nodeMap at the time of the call, so never an id that is live then; it
\* returns 0 on the empty graph.
SmallestFreeId ==
    (last.op = "NewNode" /\ NonNegative(pre.nodeMap)) =>
        /\ last.ret = Some(SmallestFree(pre.nodeMap))
        /\ last.ret[1] \notin DOMAIN pre.nodeMap
        /\ pre.nodeMap = EmptyMap => last.ret = Some(0)

\* 0, 1, 2 inserted and 1 removed: NewNode returns 1
SmallestFreeIdWitness ==
    /\ last.op = "NewNode"
    /\ DOMAIN pre.nodeMap = {0, 2}
    /\ last.ret = Some(1)

\* C5 as stated: NewNode only computes an id and leaves nodeMap, successors
\* and predecessors unchanged.
NewNodeDoesNotInsert ==
    last.op = "NewNode" => g = pre

\* C5 amended: NewNode inserts the id it returns with AddNode, so the id is
\* live on return; it gets empty adjacency when it was not live before, and
\* every other entry of nodeMap, successors and predecessors is unchanged.
NewNodeInsertsReturnedId ==
    last.op = "NewNode" =>
        /\ ~last.fault
        /\ last.ret # Nil
        /\ LET n == last.ret[1]
           IN /\ n \in DOMAIN nodeMap
              /\ DOMAIN nodeMap = DOMAIN pre.nodeMap \cup {n}
              /\ DOMAIN successors = DOMAIN pre.successors \cup {n}
              /\ DOMAIN predecessors = DOMAIN pre.predecessors \cup {n}
              /\ \A k \in DOMAIN pre.nodeMap :
                    /\ nodeMap[k] = pre.nodeMap[k]
                    /\ successors[k] = pre.successors[k]
                    /\ predecessors[k] = pre.predecessors[k]
              /\ n \notin DOMAIN pre.nodeMap =>
                    /\ nodeMap[n] = n
                    /\ successors[n] = EmptyMap
                    /\ predecessors[n] = EmptyMap

\* NewNode on a graph with edges made a node that was not live before
NewNodeInsertsWitness ==
    /\ last.op = "NewNode"
    /\ NumEdges(pre) >= 2
    /\ last.ret # Nil
    /\ last.ret[1] \notin DOMAIN pre.nodeMap
    /\ last.ret[1] \in DOMAIN nodeMap
    /\ last.ret[1] < Cardinality(DOMAIN pre.nodeMap)
\* the entry of m for (a, b), as a nil-or-value
Entry(m, a, b) == IF HasEdge(m, a, b) THEN Some(m[a][b]) ELSE Nil

\* C7: cascade deletion. After RemoveNode(n) on a live n, n is absent from
\* all three maps, EdgeTo(n, x) and EdgeTo(x, n) are absent for every x,
\* every other node that was live is still live, and every stored edge whose
\* head and tail both differ from n is unchanged in both indices.
CascadeDeletion ==
    (last.op = "RemoveNode" /\ Arg(1) \in DOMAIN pre.nodeMap) =>
        LET n == Arg(1)
        IN /\ n \notin DOMAIN nodeMap
           /\ n \notin DOMAIN successors
           /\ n \notin DOMAIN predecessors
           /\ \A x \in Ids :
                 /\ EdgeTo(g, n, x) = Nil
                 /\ EdgeTo(g, x, n) = Nil
                 /\ ~HasEdge(successors, x, n)
                 /\ ~HasEdge(predecessors, x, n)
           /\ DOMAIN nodeMap = DOMAIN pre.nodeMap \ {n}
           /\ \A h, t \in Ids \ {n} :
                 /\ Entry(successors, h, t) = Entry(pre.successors, h, t)
                 /\ Entry(predecessors, h, t) = Entry(pre.predecessors, h, t)

\* the removed node had a self-loop and an edge from another node, and a
\* third node stays
CascadeDeletionWitness ==
    /\ last.op = "RemoveNode"
    /\ Arg(1) \in DOMAIN pre.nodeMap
    /\ HasEdge(pre.successors, Arg(1), Arg(1))
    /\ \E b \in Ids \ {Arg(1)} : HasEdge(pre.successors, b, Arg(1))
    /\ NumEdges(g) = 0
    /\ Cardinality(DOMAIN nodeMap) = 2

\* graph G with the cost stored for (h, t) in both indices set to c
WithCost(G, h, t, c) ==
    Graph(G.nodeMap,
          [G.successors EXCEPT ![h][t].Cost = c],
          [G.predecessors EXCEPT ![t][h].Cost = c])

\* C8: insert idempotence. AddNode of a live id changes nothing; AddNode
\* twice is AddNode once; AddEdgeTo(e, c) twice is AddEdgeTo(e, c) once; and
\* AddEdgeTo(e, c2) where e is stored changes only the cost stored at
\* successors[head][tail] and predecessors[tail][head].
InsertIdempotence ==
    /\ (last.op = "AddNode" /\ Arg(1) \in DOMAIN pre.nodeMap) => g = pre
    /\ last.op = "AddNode" => AddNode(g, Arg(1)) = g
    /\ last.op = "AddEdgeTo" =>
          /\ ~last.fault
          /\ AddEdgeTo(g, Arg(1), Arg(2)) = g
          /\ \A c2 \in Costs :
                AddEdgeTo(g, Arg(1), c2) = WithCost(g, Arg(1).head, Arg(1).tail, c2)
    /\ (/\ last.op = "AddEdgeTo"
        /\ Entry(pre.successors, Arg(1).head, Arg(1).tail) # Nil
        /\ Entry(pre.successors, Arg(1).head, Arg(1).tail)[1].Edge = Arg(1)) =>
          g = WithCost(pre, Arg(1).head, Arg(1).tail, Arg(2))

\* AddEdgeTo on a stored edge with another cost; its head has other edges
InsertIdempotenceWitness ==
    /\ last.op = "AddEdgeTo"
    /\ HasEdge(pre.successors, Arg(1).head, Arg(1).tail)
    /\ pre.successors[Arg(1).head][Arg(1).tail].Cost # Arg(2)
    /\ successors[Arg(1).head][Arg(1).tail].Cost = Arg(2)
    /\ NumEdges(g) = NumEdges(pre)
    /\ Cardinality(DOMAIN successors[Arg(1).head]) >= 2
\* the edge (t, h) for the edge (h, t)
Reverse(e) == [e EXCEPT !.head = e.tail, !.tail = e.head]

\* C9 as stated: Cost(e) returns the +Inf sentinel exactly when no edge is
\* stored at successors[e.head][e.tail].
CostInfIffAbsent ==
    last.op = "Cost" =>
        (last.ret = Inf <=> ~HasEdge(successors, Arg(1).head, Arg(1).tail))

\* C9 amended: Cost(e) returns +Inf whenever no edge is stored at
\* successors[e.head][e.tail] (never inserted, removed by RemoveEdgeTo or by
\* RemoveNode of an endpoint, or an endpoint absent) and otherwise the cost
\* given by the most recent AddEdgeTo for that ordered pair, which is +Inf
\* itself when that call passed +Inf; the cost of (h, t) does not depend on
\* any edge stored for (t, h).
CostSentinel ==
    /\ last.op = "Cost" =>
          LET e == Arg(1)
          IN /\ ~HasEdge(successors, e.head, e.tail) => last.ret = Inf
             /\ HasEdge(successors, e.head, e.tail) =>
                   last.ret = successors[e.head][e.tail].Cost
             /\ (e.head \notin DOMAIN nodeMap \/ e.tail \notin DOMAIN nodeMap)
                   => last.ret = Inf
             \* independence of the reverse pair
             /\ e.head # e.tail =>
                   /\ Cost(RemoveEdgeTo(g, Reverse(e)), e) = last.ret
                   /\ \A c \in Costs : Cost(AddEdgeTo(g, Reverse(e), c), e) = last.ret
    /\ last.op \in {"AddNode", "AddEdgeTo", "RemoveNode", "RemoveEdgeTo",
                    "EmptyGraph", "NewNode"} =>
          \A e \in Probes :
              LET same == Arg(1).head = e.head /\ Arg(1).tail = e.tail
              IN \* the most recent AddEdgeTo for the pair decides the cost
                 /\ IF last.op = "AddEdgeTo" /\ same
                    THEN Cost(g, e) = Arg(2)
                    ELSE Cost(g, e) \in {Cost(pre, e), Inf}
                 \* and only a removal turns a cost into the sentinel
                 /\ Cost(g, e) # Cost(pre, e) =>
                       \/ last.op \in {"AddEdgeTo", "RemoveEdgeTo"} /\ same
                       \/ last.op = "RemoveNode" /\ Arg(1) \in {e.head, e.tail}
                       \/ last.op = "EmptyGraph"
                 /\ (last.op = "RemoveEdgeTo" /\ same) => Cost(g, e) = Inf
                 /\ (last.op = "RemoveNode" /\ Arg(1) \in {e.head, e.tail})
                       => Cost(g, e) = Inf
                 /\ last.op = "EmptyGraph" => Cost(g, e) = Inf

\* Cost of a stored edge of finite cost whose reverse edge has cost +Inf
CostSentinelWitness ==
    /\ last.op = "Cost"
    /\ Arg(1).head # Arg(1).tail
    /\ HasEdge(successors, Arg(1).head, Arg(1).tail)
    /\ HasEdge(successors, Arg(1).tail, Arg(1).head)
    /\ successors[Arg(1).tail][Arg(1).head].Cost = Inf
    /\ last.ret = 5
\* the positions of list r holding an edge that joins h and t, either way
Joining(r, h, t) ==
    {i \in DOMAIN r : {r[i].Edge.head, r[i].Edge.tail} = {h, t}}

\* C6: EdgeList deduplication. Whatever the order in which range visits the
\* nodes and their entries, EdgeList returns exactly one edge for each
\* unordered pair {h, t} (h = t included) joined by a stored edge in at least
\* one direction, returns only stored edges, and nothing for other pairs.
EdgeListDedup ==
    last.op = "EdgeList" =>
        /\ \A i \in DOMAIN last.ret :
              LET we == last.ret[i]
              IN Entry(successors, we.Edge.head, we.Edge.tail) = Some(we)
        /\ \A h, t \in Ids :
              Cardinality(Joining(last.ret, h, t)) =
                  IF HasEdge(successors, h, t) \/ HasEdge(successors, t, h)
                  THEN 1 ELSE 0

\* a reciprocal pair is stored, the third node is scanned between its two
\* endpoints, and EdgeList returns one edge
EdgeListDedupWitness ==
    /\ last.op = "EdgeList"
    /\ Len(Arg(1)) = 3
    /\ HasEdge(successors, Arg(1)[1], Arg(1)[3])
    /\ HasEdge(successors, Arg(1)[3], Arg(1)[1])
    /\ Len(last.ret) = 1

\* the distinct nodes that are a successor or a predecessor of n
NeighborSet(G, n) ==
    DOMAIN MapGet(G.successors, n) \cup DOMAIN MapGet(G.predecessors, n)

\* C10: neighbor uniqueness. For a live n, Neighbors(n) holds exactly the
\* distinct successors and predecessors of n, each once and no empty slot, so
\* its length is the number of distinct neighboring nodes.
NeighborsUnique ==
    (last.op = "Neighbors" /\ Arg(1) \in DOMAIN nodeMap) =>
        /\ Len(last.ret) = Cardinality(NeighborSet(g, Arg(1)))
        /\ \A i \in DOMAIN last.ret : last.ret[i] # Nil
        /\ \A m \in NeighborSet(g, Arg(1)) :
              Cardinality({i \in DOMAIN last.ret : last.ret[i] = Some(m)}) = 1
        /\ \A i \in DOMAIN last.ret :
              last.ret[i] # Nil => last.ret[i][1] \in NeighborSet(g, Arg(1))

\* C11: directed versus undirected lookup. EdgeTo(n, m) returns the edge
\* stored at successors[n][m] and is absent when that entry is missing or an
\* endpoint is not live. EdgeBetween(n, m) returns the edge stored for (n, m)
\* if there is one, else the edge stored for (m, n), else is absent; so
\* EdgeBetween(n, m) is absent exactly when EdgeBetween(m, n) is, and with
\* only (0, 1) stored EdgeTo(1, 0) is absent while EdgeBetween(1, 0) returns
\* the (0, 1) edge.
EdgeLookup ==
    /\ last.op = "EdgeTo" =>
          LET n == Arg(1)
              m == Arg(2)
          IN /\ last.ret = Entry(successors, n, m)
             /\ (n \notin DOMAIN nodeMap \/ m \notin DOMAIN nodeMap) => last.ret = Nil
             /\ (NumEdges(g) = 1 /\ HasEdge(successors, 0, 1) /\ n = 1 /\ m = 0)
                   => last.ret = Nil
    /\ last.op = "EdgeBetween" =>
          LET n == Arg(1)
              m == Arg(2)
          IN /\ last.ret = IF Entry(successors, n, m) # Nil
                           THEN Entry(successors, n, m)
                           ELSE Entry(successors, m, n)
             /\ (n \notin DOMAIN nodeMap \/ m \notin DOMAIN nodeMap) => last.ret = Nil
             /\ last.ret = Nil <=> EdgeBetween(g, m, n) = Nil
             /\ (NumEdges(g) = 1 /\ HasEdge(successors, 0, 1) /\ n = 1 /\ m = 0)
                   => last.ret = Some(successors[0][1])

\* only (0, 1) is stored and EdgeBetween(1, 0) returned it
EdgeLookupWitness ==
    /\ last.op = "EdgeBetween"
    /\ Arg(1) = 1
    /\ Arg(2) = 0
    /\ NumEdges(g) = 1
    /\ HasEdge(successors, 0, 1)
    /\ last.ret = Some(successors[0][1])
    /\ EdgeTo(g, 1, 0) = Nil

\* C12: mutators on absent targets are no-ops. RemoveNode(n) with n not
\* live, RemoveEdgeTo(e) with head or tail not live, and RemoveEdgeTo(e) with
\* both endpoints live but no edge stored for (head, tail) leave nodeMap,
\* successors and predecessors as they were and raise no fault.
AbsentTargetNoOp ==
    /\ (last.op = "RemoveNode" /\ Arg(1) \notin DOMAIN pre.nodeMap) =>
          /\ g = pre
          /\ ~last.fault
    /\ last.op = "RemoveEdgeTo" =>
          LET head == Arg(1).head
              tail == Arg(1).tail
          IN /\ (head \notin DOMAIN pre.nodeMap \/ tail \notin DOMAIN pre.nodeMap) =>
                   /\ g = pre
                   /\ ~last.fault
             /\ (/\ head \in DOMAIN pre.nodeMap
                 /\ tail \in DOMAIN pre.nodeMap
                 /\ ~HasEdge(pre.successors, head, tail)) =>
                   /\ g = pre
                   /\ ~last.fault

\* RemoveEdgeTo(h, t) between live nodes where only (t, h) is stored
AbsentTargetWitness ==
    /\ last.op = "RemoveEdgeTo"
    /\ Arg(1).head # Arg(1).tail
    /\ {Arg(1).head, Arg(1).tail} \subseteq DOMAIN pre.nodeMap
    /\ ~HasEdge(pre.successors, Arg(1).head, Arg(1).tail)
    /\ HasEdge(pre.successors, Arg(1).tail, Arg(1).head)
    /\ HasEdge(successors, Arg(1).tail, Arg(1).head)
    /\ g = pre

Queries ==
    {"Successors", "Predecessors", "Neighbors", "EdgeTo", "EdgeBetween",
     "NodeExists", "Degree", "NodeList", "Cost", "EdgeList"}

\* the ids a query was called with
QueriedIds ==
    IF last.op \in {"Successors", "Predecessors", "Neighbors", "NodeExists", "Degree"}
    THEN {Arg(1)}
    ELSE IF last.op \in {"EdgeTo", "EdgeBetween"} THEN {Arg(1), Arg(2)}
    ELSE IF last.op = "Cost" THEN {Arg(1).head, Arg(1).tail}
    ELSE {}

\* C13: queries are read-only. Successors, Predecessors, Neighbors, EdgeTo,
\* EdgeBetween, NodeExists, Degree, NodeList, Cost and EdgeList, called in
\* any reachable state with any argument, live or not, leave nodeMap,
\* successors and predecessors unchanged; an id that had no adjacency entry
\* before the query has none after it.
QueriesReadOnly ==
    last.op \in Queries =>
        /\ nodeMap = pre.nodeMap
        /\ successors = pre.successors
        /\ predecessors = pre.predecessors
        /\ \A n \in QueriedIds :
              /\ n \notin DOMAIN pre.successors => n \notin DOMAIN successors
              /\ n \notin DOMAIN pre.predecessors => n \notin DOMAIN predecessors

\* Predecessors was asked for an id that is not live, in a graph with edges
QueriesReadOnlyWitness ==
    /\ last.op = "Predecessors"
    /\ Arg(1) \notin DOMAIN pre.nodeMap
    /\ NumEdges(pre) >= 1
    /\ last.ret = Nil
    /\ Arg(1) \notin DOMAIN successors
    /\ Arg(1) \notin DOMAIN predecessors
    /\ g = pre

\* the nodes held by the slice r
NodesOf(r) == {r[i][1] : i \in {j \in DOMAIN r : r[j] # Nil}}

\* one of the orders range may take over the set S
AnyOrder(S) == CHOOSE p \in Perms(S) : TRUE

\* C14: successor and predecessor queries. Successors(n) holds exactly the
\* live nodes t with an edge stored for (n, t) and Predecessors(n) exactly the
\* live nodes h with an edge stored for (h, n), each once and no empty slot;
\* m is in Successors(n) if and only if n is in Predecessors(m); both are
\* empty when n is not live.
SuccPredExact ==
    /\ last.op = "Successors" =>
          LET n == Arg(1)
              want == {t \in Ids : t \in DOMAIN nodeMap /\ HasEdge(successors, n, t)}
          IN /\ \A i \in DOMAIN last.ret : last.ret[i] # Nil
             /\ NodesOf(last.ret) = want
             /\ Len(last.ret) = Cardinality(want)
             /\ n \notin DOMAIN nodeMap => last.ret = <<>>
             /\ \A m \in NodeIds :
                   m \in NodesOf(last.ret) <=>
                       n \in NodesOf(Predecessors(g, m,
                                 AnyOrder(DOMAIN MapGet(predecessors, m))))
    /\ last.op = "Predecessors" =>
          LET n == Arg(1)
              want == {h \in Ids : h \in DOMAIN nodeMap /\ HasEdge(successors, h, n)}
          IN /\ \A i \in DOMAIN last.ret : last.ret[i] # Nil
             /\ NodesOf(last.ret) = want
             /\ Len(last.ret) = Cardinality(want)
             /\ n \notin DOMAIN nodeMap => last.ret = <<>>
             /\ \A m \in NodeIds :
                   m \in NodesOf(last.ret) <=>
                       n \in NodesOf(Successors(g, m,
                                 AnyOrder(DOMAIN MapGet(successors, m))))

\* Successors of a node with a self-loop and an edge to another node
SuccPredWitness ==
    /\ last.op = "Successors"
    /\ HasEdge(successors, Arg(1), Arg(1))
    /\ Len(last.ret) = 2
    /\ NodesOf(last.ret) = DOMAIN successors[Arg(1)]
    /\ Cardinality(DOMAIN nodeMap) = 3

\* the scan of the EdgeList call just made
LastScan == ScanSteps(Arg(1), Arg(2))

\* the values (edgeList, edgeMap) had before each step of that scan, and
\* after the last one
LastScanStates ==
    EdgeListStates(g, [edgeList |-> <<>>, edgeMap |-> EmptyMap], LastScan)

\* the nodes the scan has entered before step i
Entered(scan, i) == {scan[j].n : j \in {k \in 1..(i - 1) : ~scan[k].entry}}

\* C15 as stated: during an EdgeList call the done set of every node exists
\* before the adjacency of any node is scanned, whatever the order.
DoneSetsPreCreated ==
    last.op = "EdgeList" =>
        LET scan == LastScan
            states == LastScanStates
        IN \A i \in DOMAIN scan :
               scan[i].entry => DOMAIN states[i].edgeMap = DOMAIN successors

\* C15 amended: during an EdgeList call the done set of a node is created,
\* empty, when the scan enters that node, so it exists before that node's own
\* adjacency is scanned; the done sets of the nodes not entered yet do not
\* exist and the reciprocal check reads them as empty. The list returned is
\* the one a scan with every done set created up front returns, whatever
\* the order.
DoneSetsOnEntry ==
    last.op = "EdgeList" =>
        LET scan == LastScan
            states == LastScanStates
        IN /\ \A i \in DOMAIN scan :
                 /\ DOMAIN states[i].edgeMap = Entered(scan, i)
                 /\ scan[i].entry =>
                       /\ scan[i].n \in DOMAIN states[i].edgeMap
                       /\ scan[i].succ \notin DOMAIN states[i].edgeMap =>
                             states[i + 1].edgeList =
                                 Append(states[i].edgeList,
                                        successors[scan[i].n][scan[i].succ])
                 /\ ~scan[i].entry =>
                       /\ scan[i].n \notin DOMAIN states[i].edgeMap
                       /\ states[i + 1].edgeMap[scan[i].n] = {}
           /\ last.ret = states[Len(scan) + 1].edgeList
           /\ last.ret = EdgeListScan(g, [edgeList |-> <<>>,
                                         edgeMap |-> [n \in DOMAIN successors |-> {}]],
                                      scan).edgeList

\* the scan met an edge to a node it had not entered yet, whose done set did
\* not exist, and a reciprocal pair was collapsed in the same call
DoneSetsOnEntryWitness ==
    /\ last.op = "EdgeList"
    /\ LET scan == LastScan
           states == LastScanStates
       IN \E i \in DOMAIN scan :
              /\ scan[i].entry
              /\ scan[i].succ \notin DOMAIN states[i].edgeMap
    /\ Len(last.ret) < NumEdges(g)

\* C16: RemoveEdgeTo frame. With head and tail both live, RemoveEdgeTo(e)
\* deletes exactly successors[head][tail] and predecessors[tail][head],
\* whatever the payload of e, and leaves the node set, the reciprocal edge
\* (tail, head) and every other edge unchanged; after removing (h, t) from a
\* reciprocal pair, EdgeTo(t, h) and EdgeBetween(h, t) return the (t, h) edge.
RemoveEdgeToFrame ==
    (/\ last.op = "RemoveEdgeTo"
     /\ Arg(1).head \in DOMAIN pre.nodeMap
     /\ Arg(1).tail \in DOMAIN pre.nodeMap) =>
        LET h == Arg(1).head
            t == Arg(1).tail
        IN /\ ~HasEdge(successors, h, t)
           /\ ~HasEdge(predecessors, t, h)
           /\ nodeMap = pre.nodeMap
           /\ DOMAIN successors = DOMAIN pre.successors
           /\ DOMAIN predecessors = DOMAIN pre.predecessors
           /\ \A a, b \in Ids :
                 <<a, b>> # <<h, t>> =>
                     /\ Entry(successors, a, b) = Entry(pre.successors, a, b)
                     /\ Entry(predecessors, b, a) = Entry(pre.predecessors, b, a)
           /\ (h # t /\ HasEdge(pre.successors, t, h)) =>
                 /\ EdgeTo(g, t, h) = Some(pre.successors[t][h])
                 /\ EdgeBetween(g, h, t) = Some(pre.successors[t][h])
                 /\ EdgeTo(g, h, t) = Nil

\* (h, t) of a reciprocal pair was removed by an edge value with another
\* payload than the stored one, and (t, h) is still returned
RemoveEdgeToFrameWitness ==
    /\ last.op = "RemoveEdgeTo"
    /\ Arg(1).head # Arg(1).tail
    /\ HasEdge(pre.successors, Arg(1).head, Arg(1).tail)
    /\ pre.successors[Arg(1).head][Arg(1).tail].Edge # Arg(1)
    /\ HasEdge(pre.successors, Arg(1).tail, Arg(1).head)
    /\ ~HasEdge(successors, Arg(1).head, Arg(1).tail)
    /\ EdgeBetween(g, Arg(1).head, Arg(1).tail) = Some(pre.successors[Arg(1).tail][Arg(1).head])

\* C17: degree accounting. Degree(n) is 0 for an n that is not live and
\* otherwise the number of stored edges with head n plus the number with tail
\* n, so 2 for a reciprocal pair with one neighbor and 2 for a self-loop; in
\* every reachable state the sum of Degree over the live nodes is twice the
\* number of stored directed edges.
DegreeAccounting ==
    /\ last.op = "Degree" =>
          LET n == Arg(1)
              out == {t \in Ids : HasEdge(successors, n, t)}
              in == {h \in Ids : HasEdge(successors, h, n)}
          IN /\ n \notin DOMAIN nodeMap => last.ret = 0
             /\ n \in DOMAIN nodeMap =>
                   last.ret = Cardinality(out) + Cardinality(in)
             /\ (\E m \in Ids \ {n} : out = {m} /\ in = {m}) => last.ret = 2
             /\ (out = {n} /\ in = {n}) => last.ret = 2
    /\ Sum([n \in DOMAIN nodeMap |-> Degree(g, n)], DOMAIN nodeMap) = 2 * NumEdges(g)

\* Degree of a node with a self-loop and an edge from another node
DegreeAccountingWitness ==
    /\ last.op = "Degree"
    /\ HasEdge(successors, Arg(1), Arg(1))
    /\ \E m \in Ids \ {Arg(1)} : HasEdge(successors, m, Arg(1))
    /\ last.ret = 3
    /\ NumEdges(g) = 2

\* C18: successive allocations are distinct. With all live ids non-negative,
\* the id NewNode returns is live when it returns, a key of nodeMap,
\* successors and predecessors with empty adjacency, and it differs from
\* every id NewNode has returned since the last RemoveNode or EmptyGraph,
\* whatever AddNode and AddEdgeTo calls came in between.
DistinctAllocations ==
    (last.op = "NewNode" /\ NonNegative(pre.nodeMap)) =>
        /\ ~last.fault
        /\ last.ret # Nil
        /\ LET n == last.ret[1]
           IN /\ n \in DOMAIN nodeMap
              /\ n \in DOMAIN successors
              /\ n \in DOMAIN predecessors
              /\ successors[n] = EmptyMap
              /\ predecessors[n] = EmptyMap
              /\ n \notin allocated

\* NewNode returned an id below live ones, after an earlier NewNode and with
\* edges inserted since
DistinctAllocationsWitness ==
    /\ last.op = "NewNode"
    /\ NonNegative(pre.nodeMap)
    /\ allocated # {}
    /\ NumEdges(pre) >= 1
    /\ last.ret # Nil
    /\ last.ret[1] \notin allocated
    /\ \E k \in DOMAIN pre.nodeMap : k > last.ret[1]
    /\ \E k \in allocated : HasEdge(successors, k, k) \/ k > last.ret[1]

\* the position of x in the sequence s
PosOf(s, x) == CHOOSE i \in DOMAIN s : s[i] = x

\* both (h, t) and (t, h) are stored, h and t different
Reciprocal(h, t) ==
    h # t /\ HasEdge(successors, h, t) /\ HasEdge(successors, t, h)

\* how many edges of list r have each cost
CostBag(r) == [c \in Costs |-> Cardinality({i \in DOMAIN r : r[i].Cost = c})]

\* C19: EdgeList representative of a reciprocal pair. When (h, t) and (t, h)
\* are both stored, h and t different, EdgeList returns exactly one of the
\* two stored weighted edges, the one whose head is the endpoint the call
\* scanned first. The number of edges returned is the same for every order
\* of iteration, and when the two directions of every reciprocal pair have
\* the same cost, so is the multiset of the costs of the edges returned.
EdgeListRepresentative ==
    last.op = "EdgeList" =>
        LET other == EdgeList(g, AnyOrder(DOMAIN successors),
                              [n \in DOMAIN successors |->
                                  AnyOrder(DOMAIN successors[n])])
        IN /\ \A h, t \in DOMAIN successors :
                 (Reciprocal(h, t) /\ PosOf(Arg(1), h) < PosOf(Arg(1), t)) =>
                     /\ \E i \in DOMAIN last.ret : last.ret[i] = successors[h][t]
                     /\ \A i \in DOMAIN last.ret : last.ret[i] # successors[t][h]
                     /\ last.ret[CHOOSE i \in Joining(last.ret, h, t) : TRUE].Edge.head = h
                     /\ Cardinality(Joining(last.ret, h, t)) = 1
           /\ Len(last.ret) = Len(other)
           /\ (\A h, t \in DOMAIN successors :
                  Reciprocal(h, t) => successors[h][t].Cost = successors[t][h].Cost)
                 => CostBag(last.ret) = CostBag(other)

\* a reciprocal pair with two different costs is stored, its endpoints are
\* scanned second and third, and the edge returned is the one leaving the
\* endpoint scanned second
EdgeListRepresentativeWitness ==
    /\ last.op = "EdgeList"
    /\ Len(Arg(1)) = 3
    /\ Reciprocal(Arg(1)[2], Arg(1)[3])
    /\ successors[Arg(1)[2]][Arg(1)[3]].Cost # successors[Arg(1)[3]][Arg(1)[2]].Cost
    /\ last.ret = <<successors[Arg(1)[2]][Arg(1)[3]]>>
====
